---- MODULE Spec2Model ----
(***************************************************************************)
(* Model of the unit-root crate: the lagged design-matrix builder          *)
(* (tools::prepare), the OLS estimator (regression::ols) and the           *)
(* Dickey-Fuller / augmented Dickey-Fuller tests built on them, and        *)
(* the critical-value approximation (distrib::dickeyfuller).               *)
(*                                                                         *)
(* Numbers.  The series handed to the tests hold small integers.  Every    *)
(* value the code computes from them with +, -, * and / is a rational,     *)
(* kept here exactly as a reduced fraction; IEEE-754 division by zero      *)
(* gives the special values NaN and +/-Infinity, and the square root of    *)
(* the standard error is kept symbolically (a t-statistic is a signed      *)
(* square root of a rational).                                             *)
(*                                                                         *)
(* Rounding.  The code tests two computed quantities against zero: the     *)
(* determinant of X'X (try_inverse) and, through the divisions by the      *)
(* residual variance and the standard error, the residual sum of squares.  *)
(* A quantity that is zero in exact arithmetic is computed as zero when    *)
(* the data are small integers and, in general, as a rounding residue      *)
(* when they are not (the crate's reference series are of the second       *)
(* kind).  The variable rounding says which: with "exact" every value is   *)
(* the exact one; with "inexact" the integers of the series stand for      *)
(* values the floating type cannot add and multiply exactly, a quantity    *)
(* that is zero in exact arithmetic comes out as a residue unless its      *)
(* computation gives zero whatever the rounding (computed_as_zero, and     *)
(* the residuals of a regression with X'y = 0), and whatever is computed   *)
(* from a residue by a division is unspecified.  The variable build says   *)
(* whether integer overflow is checked (debug profile) or wraps (release   *)
(* profile).                                                               *)
(*                                                                         *)
(* Vectors are sequences (index r+1 models the code's index r) and a       *)
(* matrix is a record of its shape and its sequence of columns (nalgebra   *)
(* stores column-major and Extend appends columns).                        *)
(***************************************************************************)
EXTENDS Integers, Sequences, FiniteSets, TLC

VARIABLES y, lag, regression, predictors, sz, alpha, rounding, build, op, result,
          returned, running

vars == <<y, lag, regression, predictors, sz, alpha, rounding, build, op, result,
          returned, running>>

\* returned is the caller's record of the outcomes it was handed so far, and
\* running holds the invocations of the tests that are in progress side by
\* side, each with its own arguments and locals.

\* What a call receives from its caller and from the platform.
inputs == <<y, lag, regression, predictors, sz, alpha, rounding, build>>

\* ------------------------------------------------------------------ bounds
MaxLen == 7
MaxLag == 2
MaxVal == 1
MaxExampleLen == 10
MaxExampleStart == 3
MaxOlsLen == 5
MaxCols == 3
MaxSize == 8
MaxRepeatLen == 3
MaxInvocations == 2
MaxConcurrentLen == 4
MaxConcurrentLag == 1

\* ------------------------------------------------------------------ types
Regression == {"Constant", "ConstantAndTrend", "NoConstantNoTrend"}

AlphaLevel == {"OnePercent", "TwoPointFivePercent", "FivePercent", "TenPercent"}

\* Whether the floating type computes the sums and products of the data
\* exactly.
Rounding == {"exact", "inexact"}

\* Whether `-` on usize panics on overflow (debug) or wraps (release).
Build == {"debug", "release"}

NotEnoughSamples == [kind |-> "Err", error |-> "NotEnoughSamples"]
ConversionFailed == [kind |-> "Err", error |-> "ConversionFailed"]
FailedToInvertMatrix ==
  [kind |-> "Err", error |-> "FailedToInvertMatrix",
   message |-> "OLS failed to invert A.T*A"]

NoResult == [kind |-> "None"]

\* ---------------------------------------------------------- vector helpers
\* Variant: truncates the vector, dropping its last n elements whatever i is.
remove_rows_drops_tail(v, i, n) == [r \in 1..(Len(v) - n) |-> v[r]]

\* DVector::remove_rows(i, n): drops the n elements at (0-based) i .. i+n-1.
remove_rows(v, i, n) ==
  [r \in 1..(Len(v) - n) |-> IF r <= i THEN v[r] ELSE v[r + n]]

\* DVector::remove_row(i) is remove_rows(i, 1).
remove_row(v, i) == remove_rows(v, i, 1)

\* Variant: the difference is taken the wrong way round.
vsub_reversed(a, b) == [r \in 1..Len(a) |-> b[r] - a[r]]

\* Element-wise difference of two vectors of the same length.
vsub(a, b) == [r \in 1..Len(a) |-> a[r] - b[r]]

\* DMatrix::zeros(nrows, ncols)
zeros(nrows, ncols) ==
  [nrows |-> nrows, ncols |-> ncols,
   cols |-> [c \in 1..ncols |-> [r \in 1..nrows |-> 0]]]

\* x.column_mut(c).copy_from(&col), c 0-based.
column_copy_from(x, c, col) ==
  [nrows |-> x.nrows, ncols |-> x.ncols,
   cols |-> [j \in 1..Len(x.cols) |-> IF j = c + 1 THEN col ELSE x.cols[j]]]

\* Variant: the new column is stored but the column count is not updated.
extend_keeps_ncols(x, a) ==
  [nrows |-> x.nrows, ncols |-> x.ncols, cols |-> Append(x.cols, a)]

\* Variant: the new column is put in front of the existing ones.
extend_prepends(x, a) ==
  [nrows |-> x.nrows, ncols |-> x.ncols + 1, cols |-> <<a>> \o x.cols]

\* DMatrix::extend(iter): appends the elements as one more column.
extend(x, a) ==
  [nrows |-> x.nrows, ncols |-> x.ncols + 1, cols |-> Append(x.cols, a)]

\* Spacing of the f32 values around the non-negative integer v (24-bit
\* significand): 1 below 2^24, doubling with every further power of two.
RECURSIVE ulp(_)
ulp(v) == IF v < 16777216 THEN 1 ELSE 2 * ulp(v \div 2)

\* F::from(v) of a non-negative integer v (`1.0`, `i as f64`, `n - k`) for
\* the floating types the crate is instantiated at.  The conversion of a
\* finite f64 never yields None; the narrower type, f32, rounds to the
\* nearest representable value, ties to the even significand (f64 is exact
\* over the whole range, and the two agree up to 2^24).
from_f64(v) ==
  LET s == ulp(v)
      q == v \div s
      rem == v % s
      up == 2 * rem > s \/ (2 * rem = s /\ q % 2 = 1)
  IN  [some |-> TRUE, value |-> IF up THEN (q + 1) * s ELSE q * s]

\* ------------------------------------------------------------------ prepare
\* Variant: the length check is off by one and lets a series of n + 1 through.
not_enough_samples_off_by_one(y_len, n) == y_len <= n

\* `if y_len <= n + 1 { return Err(Error::NotEnoughSamples) }`
not_enough_samples(y_len, n) == y_len <= n + 1

\* Variant: the lag columns are filled in the reverse order (column n - i).
RECURSIVE lag_columns_reversed(_, _, _, _)
lag_columns_reversed(x, delta_y_shifted, n, i) ==
  IF i >= n THEN x
  ELSE
    LET col == remove_rows(delta_y_shifted, 0, n - i - 1)
        x1 == column_copy_from(x, n - i, col)
        delta_y_shifted_len == Len(delta_y_shifted)
    IN  lag_columns_reversed(x1,
          remove_row(delta_y_shifted, delta_y_shifted_len - 1), n, i + 1)

\* The loop `for i in 0..n` of prepare: state is (x, delta_y_shifted).
RECURSIVE lag_columns(_, _, _, _)
lag_columns(x, delta_y_shifted, n, i) ==
  IF i >= n THEN x
  ELSE
    LET col == remove_rows(delta_y_shifted, 0, n - i - 1)
        x1 == column_copy_from(x, i + 1, col)
        delta_y_shifted_len == Len(delta_y_shifted)
    IN  lag_columns(x1, remove_row(delta_y_shifted, delta_y_shifted_len - 1),
                    n, i + 1)

\* Variant: the time index starts at 0.
time_trend_from_zero(nrows) == [i \in 1..nrows |-> from_f64(i - 1)]

\* `(1..x.nrows() + 1).map(|i| F::from(i as f64))`: the converted time index.
time_trend(nrows) == [i \in 1..nrows |-> from_f64(i)]

prepare(yv, n, reg) ==
  LET y_len == Len(yv) IN
  IF not_enough_samples(y_len, n) THEN NotEnoughSamples
  ELSE
    LET y_t_1_full == remove_row(yv, y_len - 1)
        delta_y == vsub(remove_row(yv, 0), y_t_1_full)
        delta_y_output == remove_rows(delta_y, 0, n)
        x0 == zeros(y_len - n - 1, n + 1)
        y_t_1 == remove_rows(y_t_1_full, 0, n)
        x1 == column_copy_from(x0, 0, y_t_1)
        x2 == IF n > 0
                THEN lag_columns(x1, remove_row(delta_y, Len(delta_y) - 1), n, 0)
                ELSE x1
        constant == from_f64(1)
        x3 == IF reg # "NoConstantNoTrend" /\ constant.some
                THEN extend(x2, [r \in 1..x2.nrows |-> constant.value])
                ELSE x2
        tt == time_trend(x3.nrows)
        x4 == IF reg = "ConstantAndTrend"
                THEN extend(x3, [i \in 1..Len(tt) |-> tt[i].value])
                ELSE x3
    IN  IF reg # "NoConstantNoTrend" /\ ~constant.some THEN ConversionFailed
        ELSE IF reg = "ConstantAndTrend" /\ \E i \in 1..Len(tt) : ~tt[i].some
          THEN ConversionFailed
        ELSE [kind |-> "Ok", delta_y |-> delta_y_output, x |-> x4,
              size |-> y_len - n - 1]

\* --------------------------------------------------------- exact arithmetic
Abs(a) == IF a < 0 THEN 0 - a ELSE a

Sign(a) == IF a < 0 THEN 0 - 1 ELSE IF a = 0 THEN 0 ELSE 1

RECURSIVE GCD(_, _)
GCD(a, b) == IF b = 0 THEN a ELSE GCD(b, a % b)

\* The rational n/d (d # 0) in lowest terms with a positive denominator.
Q(n, d) ==
  LET g == GCD(Abs(n), Abs(d))
  IN  [n |-> Sign(d) * (n \div g), d |-> Abs(d) \div g]

QInt(a) == [n |-> a, d |-> 1]

QAdd(a, b) ==
  LET g == GCD(a.d, b.d)
  IN  Q(a.n * (b.d \div g) + b.n * (a.d \div g), (a.d \div g) * b.d)

QNeg(a) == [n |-> 0 - a.n, d |-> a.d]

QSub(a, b) == QAdd(a, QNeg(b))

QMul(a, b) ==
  LET g1 == GCD(Abs(a.n), b.d)
      g2 == GCD(Abs(b.n), a.d)
  IN  [n |-> (a.n \div g1) * (b.n \div g2), d |-> (a.d \div g2) * (b.d \div g1)]

\* Sum of the first len entries of a sequence of rationals.
RECURSIVE QSum(_, _)
QSum(f, len) == IF len = 0 THEN QInt(0) ELSE QAdd(QSum(f, len - 1), f[len])

\* Sum of the first len entries of a sequence of integers.
RECURSIVE ISum(_, _)
ISum(f, len) == IF len = 0 THEN 0 ELSE ISum(f, len - 1) + f[len]

\* IEEE-754 values: a finite value s * sqrt(n/d) (s the sign, n/d in lowest
\* terms; a rational q is Sign(q) * sqrt(q^2)), NaN, or +/-Infinity.
NaN == [k |-> "nan"]

Infinity(s) == [k |-> "inf", s |-> s]

\* The positive (s = 1) or negative (s = -1) residue that rounding leaves
\* where exact arithmetic gives zero; smaller in magnitude than any
\* non-zero rational of the model.
Tiny(s) == [k |-> "tiny", s |-> s]

\* A value that depends on the rounding errors of the computation.
Unspecified == [k |-> "unspecified"]

\* a / b for rationals a, b in the floating type: x/0 is NaN for x = 0 and
\* +/-Infinity otherwise.
float_div(a, b) ==
  IF b.n = 0
    THEN IF a.n = 0 THEN NaN ELSE Infinity(Sign(a.n))
    ELSE [k |-> "fin", q |-> QMul(a, Q(b.d, b.n))]

\* Variant: a residue divided by zero stays a residue.
tiny_div_finite(b) == Tiny(1)

\* r / b for a positive residue r and a rational b >= 0.
tiny_div(b) == IF b.n = 0 THEN Infinity(1) ELSE Tiny(1)

\* a * v for a rational a and a value v of float_div or tiny_div.
float_mul(a, v) ==
  IF v.k = "nan" THEN NaN
  ELSE IF v.k = "inf"
    THEN IF a.n = 0 THEN NaN ELSE Infinity(Sign(a.n) * v.s)
  ELSE IF v.k = "tiny"
    THEN IF a.n = 0 THEN [k |-> "fin", q |-> QInt(0)]
         ELSE Tiny(Sign(a.n) * v.s)
  ELSE [k |-> "fin", q |-> QMul(a, v.q)]

\* Float::sqrt: NaN for NaN and for negative values, +Infinity for
\* +Infinity, otherwise the (symbolic) root of the rational.
float_sqrt(v) ==
  IF v.k = "nan" THEN NaN
  ELSE IF v.k = "inf" THEN IF v.s > 0 THEN Infinity(1) ELSE NaN
  ELSE IF v.k = "tiny" THEN IF v.s > 0 THEN Tiny(1) ELSE NaN
  ELSE IF v.q.n < 0 THEN NaN
  ELSE [k |-> "root", q |-> v.q]

\* Variant: a division by a zero standard error always gives NaN.
div_by_root_nan_on_zero(b, se) ==
  IF se.k = "nan" THEN NaN
  ELSE IF se.k = "inf" THEN [k |-> "t", s |-> 0, q |-> QInt(0)]
  ELSE IF se.k = "tiny" THEN Unspecified
  ELSE IF se.q.n = 0 THEN NaN
  ELSE [k |-> "t", s |-> Sign(b.n),
        q |-> QMul(QMul(b, Q(se.q.d, se.q.n)), b)]

\* b / se for a rational b and a standard error se of float_sqrt.  Over a
\* residue the quotient is decided by the rounding errors of b and se.
div_by_root(b, se) ==
  IF se.k = "nan" THEN NaN
  ELSE IF se.k = "inf" THEN [k |-> "t", s |-> 0, q |-> QInt(0)]
  ELSE IF se.k = "tiny" THEN Unspecified
  ELSE IF se.q.n = 0
    THEN IF b.n = 0 THEN NaN ELSE Infinity(Sign(b.n))
  ELSE [k |-> "t", s |-> Sign(b.n),
        q |-> QMul(QMul(b, Q(se.q.d, se.q.n)), b)]

\* ---------------------------------------------------------- linear algebra
\* Dot product of two integer vectors of length len.
dot(a, b, len) == ISum([r \in 1..len |-> a[r] * b[r]], len)

\* The square matrix m (a sequence of rows) without row i and column j.
Minor(m, i, j) ==
  LET k == Len(m)
  IN  [r \in 1..(k - 1) |->
        [c \in 1..(k - 1) |->
          m[IF r < i THEN r ELSE r + 1][IF c < j THEN c ELSE c + 1]]]

\* Determinant by expansion along the first row.
RECURSIVE Det(_)
Det(m) ==
  IF Len(m) = 0 THEN 1
  ELSE IF Len(m) = 1 THEN m[1][1]
  ELSE ISum([j \in 1..Len(m) |->
              IF m[1][j] = 0 THEN 0
              ELSE (IF j % 2 = 1 THEN 1 ELSE 0 - 1) * m[1][j]
                     * Det(Minor(m, 1, j))],
            Len(m))

\* Variant: only equal rows are recognised; a row of zeros is not.
computed_as_zero_equal_rows_only(m) ==
  Len(m) <= 3 /\ \E i, j \in 1..Len(m) : i # j /\ m[i] = m[j]

\* Whether the determinant of the singular matrix m is computed as zero
\* whatever the rounding: a row of zeros gives every term a zero factor,
\* and with two equal rows the closed forms used up to dimension 3 subtract
\* two equal products.
computed_as_zero(m) ==
  \/ \E i \in 1..Len(m) : \A j \in 1..Len(m) : m[i][j] = 0
  \/ Len(m) <= 3 /\ \E i, j \in 1..Len(m) : i # j /\ m[i] = m[j]

\* Variant: the cofactors are taken without their signs.
try_inverse_unsigned_cofactors(m) ==
  LET det == Det(m)
      k == Len(m)
  IN  IF det = 0
        THEN IF rounding = "exact" \/ computed_as_zero(m)
               THEN [some |-> FALSE]
               ELSE [some |-> TRUE, exact |-> FALSE]
      ELSE [some |-> TRUE, exact |-> TRUE,
            value |-> [i \in 1..k |-> [j \in 1..k |->
                        Q(Det(Minor(m, j, i)), det)]]]

\* Matrix::try_inverse: None when the determinant it computes is zero,
\* otherwise the inverse (adjugate over determinant).  The determinant of a
\* singular matrix is computed as zero in exact arithmetic and in the cases
\* of computed_as_zero; otherwise rounding leaves a residue, the matrix
\* passes for invertible and the "inverse" returned is not one (exact is
\* FALSE and no value is modelled).
try_inverse(m) ==
  LET det == Det(m)
      k == Len(m)
  IN  IF det = 0
        THEN IF rounding = "exact" \/ computed_as_zero(m)
               THEN [some |-> FALSE]
               ELSE [some |-> TRUE, exact |-> FALSE]
      ELSE [some |-> TRUE, exact |-> TRUE,
            value |-> [i \in 1..k |-> [j \in 1..k |->
                        Q((IF (i + j) % 2 = 0 THEN 1 ELSE 0 - 1)
                            * Det(Minor(m, j, i)), det)]]]

\* ---------------------------------------------------------------------- ols
\* Variant: the residual variance is RSS / n.
ols_terms_divides_by_n(yv, x, ata_inv) ==
  LET n == x.nrows
      k == x.ncols
      aty == [i \in 1..k |-> dot(x.cols[i], yv, n)]
      beta_ == [i \in 1..k |->
                 QSum([j \in 1..k |-> QMul(ata_inv[i][j], QInt(aty[j]))], k)]
      y_hat == [r \in 1..n |->
                 QSum([j \in 1..k |-> QMul(QInt(x.cols[j][r]), beta_[j])], k)]
      residuals == [r \in 1..n |-> QSub(QInt(yv[r]), y_hat[r])]
      rtr == QSum([r \in 1..n |-> QMul(residuals[r], residuals[r])], n)
      residue == /\ rtr.n = 0
                 /\ rounding = "inexact"
                 /\ \E i \in 1..k : aty[i] # 0
      dof == from_f64(n)
      sigma2 == IF residue THEN tiny_div(QInt(dof.value))
                ELSE float_div(rtr, QInt(dof.value))
      vcv_diagonal == [i \in 1..k |-> float_mul(ata_inv[i][i], sigma2)]
      se == [i \in 1..k |-> float_sqrt(vcv_diagonal[i])]
      t_statistics == [i \in 1..k |-> div_by_root(beta_[i], se[i])]
  IN  [beta |-> beta_, rtr |-> rtr, se |-> se, t_statistics |-> t_statistics]

\* The quantities ols computes from the inverse of X'X (n >= k): the
\* coefficients, the residual sum of squares, the standard errors and the
\* t-statistics.  A residual sum of squares that is zero in exact arithmetic
\* is a residue under rounding, unless X'y is zero (then the coefficients,
\* the fitted values and the residuals are zeros whatever the rounding).
ols_terms(yv, x, ata_inv) ==
  LET n == x.nrows
      k == x.ncols
      aty == [i \in 1..k |-> dot(x.cols[i], yv, n)]
      beta_ == [i \in 1..k |->
                 QSum([j \in 1..k |-> QMul(ata_inv[i][j], QInt(aty[j]))], k)]
      y_hat == [r \in 1..n |->
                 QSum([j \in 1..k |-> QMul(QInt(x.cols[j][r]), beta_[j])], k)]
      residuals == [r \in 1..n |-> QSub(QInt(yv[r]), y_hat[r])]
      rtr == QSum([r \in 1..n |-> QMul(residuals[r], residuals[r])], n)
      residue == /\ rtr.n = 0
                 /\ rounding = "inexact"
                 /\ \E i \in 1..k : aty[i] # 0
      dof == from_f64(n - k)
      sigma2 == IF residue THEN tiny_div(QInt(dof.value))
                ELSE float_div(rtr, QInt(dof.value))
      vcv_diagonal == [i \in 1..k |-> float_mul(ata_inv[i][i], sigma2)]
      se == [i \in 1..k |-> float_sqrt(vcv_diagonal[i])]
      t_statistics == [i \in 1..k |-> div_by_root(beta_[i], se[i])]
  IN  [beta |-> beta_, rtr |-> rtr, se |-> se, t_statistics |-> t_statistics]

\* Variant: the t-statistics are returned in the reverse order of the columns.
ols_reversed_t_statistics(yv, x) ==
  LET n == x.nrows
      k == x.ncols
      ata == [i \in 1..k |-> [j \in 1..k |-> dot(x.cols[i], x.cols[j], n)]]
      inv == try_inverse(ata)
  IN  IF ~inv.some THEN FailedToInvertMatrix
      ELSE IF n < k /\ build = "debug"
        THEN [kind |-> "Panic", message |-> "attempt to subtract with overflow"]
      ELSE IF ~inv.exact
        THEN [kind |-> "Ok", beta |-> [i \in 1..k |-> Unspecified],
              t_statistics |-> [i \in 1..k |-> Unspecified]]
      ELSE
        LET terms == ols_terms(yv, x, inv.value)
        IN  [kind |-> "Ok", beta |-> terms.beta,
             t_statistics |-> [i \in 1..k |-> terms.t_statistics[k + 1 - i]]]

\* Variant: a column of ones is put in front of x before the regression.
ols_adds_intercept(yv, x) ==
  LET n == x.nrows
      k == x.ncols + 1
      cols == <<[r \in 1..n |-> 1]>> \o x.cols
      ata == [i \in 1..k |-> [j \in 1..k |-> dot(cols[i], cols[j], n)]]
      inv == try_inverse(ata)
  IN  IF ~inv.some THEN FailedToInvertMatrix
      ELSE IF n < k /\ build = "debug"
        THEN [kind |-> "Panic", message |-> "attempt to subtract with overflow"]
      ELSE IF ~inv.exact
        THEN [kind |-> "Ok", beta |-> [i \in 1..k |-> Unspecified],
              t_statistics |-> [i \in 1..k |-> Unspecified]]
      ELSE
        LET terms == ols_terms(yv, [nrows |-> n, ncols |-> k, cols |-> cols],
                               inv.value)
        IN  [kind |-> "Ok", beta |-> terms.beta,
             t_statistics |-> terms.t_statistics]

\* ols(y, x): X'X is inverted first (a failure returns the error), the
\* coefficients and residuals are computed, and then `n - k` is evaluated on
\* usize: with fewer rows than columns (X'X is then singular and got here
\* only as a rounding residue) the subtraction overflows, which panics when
\* overflow is checked and wraps to a huge divisor otherwise.
ols(yv, x) ==
  LET n == x.nrows
      k == x.ncols
      ata == [i \in 1..k |-> [j \in 1..k |-> dot(x.cols[i], x.cols[j], n)]]
      inv == try_inverse(ata)
  IN  IF ~inv.some THEN FailedToInvertMatrix
      ELSE IF n < k /\ build = "debug"
        THEN [kind |-> "Panic", message |-> "attempt to subtract with overflow"]
      ELSE IF ~inv.exact
        THEN [kind |-> "Ok", beta |-> [i \in 1..k |-> Unspecified],
              t_statistics |-> [i \in 1..k |-> Unspecified]]
      ELSE
        LET terms == ols_terms(yv, x, inv.value)
        IN  [kind |-> "Ok", beta |-> terms.beta,
             t_statistics |-> terms.t_statistics]

\* ------------------------------------------------ index arithmetic of prepare
\* The unsigned subtractions a - b (usize), the row removals (count rows
\* from index at of a vector of len entries) and the column copies (a
\* vector of len entries into column `column`) that the loop `for i in 0..n`
\* of prepare performs from iteration i on, in the order of the code;
\* shifted_len is delta_y_shifted.len() at the start of iteration i.
RECURSIVE lag_columns_indexing(_, _, _)
lag_columns_indexing(shifted_len, n, i) ==
  IF i >= n
    THEN [subtractions |-> <<>>, removals |-> <<>>, copies |-> <<>>]
  ELSE
    LET rest == lag_columns_indexing(shifted_len - 1, n, i + 1)
    IN  [subtractions |->
           <<[a |-> n, b |-> i], [a |-> n - i, b |-> 1],
             [a |-> shifted_len, b |-> 1]>> \o rest.subtractions,
         removals |->
           <<[len |-> shifted_len, at |-> 0, count |-> n - i - 1],
             [len |-> shifted_len, at |-> shifted_len - 1, count |-> 1]>>
             \o rest.removals,
         copies |->
           <<[column |-> i + 1, len |-> shifted_len - (n - i - 1)]>>
             \o rest.copies]

\* Variant: y_t_1_full is built before the length is checked.
prepare_indexing_checks_late(y_len, n) ==
  IF not_enough_samples(y_len, n)
    THEN [subtractions |-> <<[a |-> y_len, b |-> 1]>>,
          removals |-> <<[len |-> y_len, at |-> y_len - 1, count |-> 1]>>,
          copies |-> <<>>, nrows |-> 0, ncols |-> 0]
  ELSE
    LET loop == IF n > 0 THEN lag_columns_indexing(y_len - 1 - 1, n, 0)
                ELSE [subtractions |-> <<>>, removals |-> <<>>, copies |-> <<>>]
    IN  [subtractions |->
           <<[a |-> y_len, b |-> 1],
             [a |-> y_len, b |-> n], [a |-> y_len - n, b |-> 1]>>
           \o (IF n > 0 THEN <<[a |-> y_len - 1, b |-> 1]>> ELSE <<>>)
           \o loop.subtractions
           \o <<[a |-> y_len, b |-> n], [a |-> y_len - n, b |-> 1]>>,
         removals |->
           <<[len |-> y_len, at |-> y_len - 1, count |-> 1],
             [len |-> y_len, at |-> 0, count |-> 1],
             [len |-> y_len - 1, at |-> 0, count |-> n],
             [len |-> y_len - 1, at |-> 0, count |-> n]>>
           \o (IF n > 0
                 THEN <<[len |-> y_len - 1, at |-> y_len - 1 - 1, count |-> 1]>>
                 ELSE <<>>)
           \o loop.removals,
         copies |-> <<[column |-> 0, len |-> y_len - 1 - n]>> \o loop.copies,
         nrows |-> y_len - n - 1, ncols |-> n + 1]

\* The same for the whole of prepare(y, n, _) on a series of y_len entries,
\* with the shape of the matrix created by DMatrix::zeros: nothing when the
\* length check returns the error, otherwise `y_len - 1`, the removals
\* that build y_t_1_full, delta_y, delta_y_output and y_t_1,
\* `y_len - n - 1` for the matrix, `delta_y.len() - 1` and the loop when
\* n > 0, and `y_len - n - 1` for the size.
prepare_indexing(y_len, n) ==
  IF not_enough_samples(y_len, n)
    THEN [subtractions |-> <<>>, removals |-> <<>>, copies |-> <<>>,
          nrows |-> 0, ncols |-> 0]
  ELSE
    LET loop == IF n > 0 THEN lag_columns_indexing(y_len - 1 - 1, n, 0)
                ELSE [subtractions |-> <<>>, removals |-> <<>>, copies |-> <<>>]
    IN  [subtractions |->
           <<[a |-> y_len, b |-> 1],
             [a |-> y_len, b |-> n], [a |-> y_len - n, b |-> 1]>>
           \o (IF n > 0 THEN <<[a |-> y_len - 1, b |-> 1]>> ELSE <<>>)
           \o loop.subtractions
           \o <<[a |-> y_len, b |-> n], [a |-> y_len - n, b |-> 1]>>,
         removals |->
           <<[len |-> y_len, at |-> y_len - 1, count |-> 1],
             [len |-> y_len, at |-> 0, count |-> 1],
             [len |-> y_len - 1, at |-> 0, count |-> n],
             [len |-> y_len - 1, at |-> 0, count |-> n]>>
           \o (IF n > 0
                 THEN <<[len |-> y_len - 1, at |-> y_len - 1 - 1, count |-> 1]>>
                 ELSE <<>>)
           \o loop.removals,
         copies |-> <<[column |-> 0, len |-> y_len - 1 - n]>> \o loop.copies,
         nrows |-> y_len - n - 1, ncols |-> n + 1]

\* ------------------------------------------------------------------- tests
\* Variant: the statistic of the last regressor is reported.
adf_test_last_column(yv, l, reg) ==
  LET p == prepare(yv, l, reg) IN
  IF p.kind # "Ok" THEN p
  ELSE
    LET o == ols(p.delta_y, p.x) IN
    IF o.kind # "Ok" THEN o
    ELSE [kind |-> "Ok", test_statistic |-> o.t_statistics[Len(o.t_statistics)],
          size |-> p.size]

\* Variant: the report's size forgets the rows trimmed for the lags.
adf_test_size_ignores_lag(yv, l, reg) ==
  LET p == prepare(yv, l, reg) IN
  IF p.kind # "Ok" THEN p
  ELSE
    LET o == ols(p.delta_y, p.x) IN
    IF o.kind # "Ok" THEN o
    ELSE [kind |-> "Ok", test_statistic |-> o.t_statistics[0 + 1],
          size |-> Len(yv) - 1]

adf_test(yv, l, reg) ==
  LET p == prepare(yv, l, reg) IN
  IF p.kind # "Ok" THEN p
  ELSE
    LET o == ols(p.delta_y, p.x) IN
    IF o.kind # "Ok" THEN o
    ELSE [kind |-> "Ok", test_statistic |-> o.t_statistics[0 + 1], size |-> p.size]

\* Variant: one lagged difference is included.
dickeyfuller_test_lag_1(series, reg) ==
  LET p == prepare(series, 1, reg) IN
  IF p.kind # "Ok" THEN p
  ELSE
    LET o == ols(p.delta_y, p.x) IN
    IF o.kind # "Ok" THEN o
    ELSE [kind |-> "Ok", test_statistic |-> o.t_statistics[0 + 1], size |-> p.size]

dickeyfuller_test(series, reg) ==
  LET p == prepare(series, 0, reg) IN
  IF p.kind # "Ok" THEN p
  ELSE
    LET o == ols(p.delta_y, p.x) IN
    IF o.kind # "Ok" THEN o
    ELSE [kind |-> "Ok", test_statistic |-> o.t_statistics[0 + 1], size |-> p.size]

\* --------------------------------------------------------- critical values
\* Critical values are kept in units of 1e-6, the resolution of the
\* constants of the tables; a quotient is truncated to the unit, so a value
\* is within 3 units of the one the code computes in f64.

\* c / d truncated to the unit; x/0 is NaN for x = 0 and +/-Infinity
\* otherwise.
critical_div(c, d) ==
  IF d = 0
    THEN IF c = 0 THEN NaN ELSE Infinity(Sign(c))
    ELSE [k |-> "fin", micro |-> Sign(c) * (Abs(c) \div d)]

\* a + b in the floating type.
critical_add(a, b) ==
  IF a.k = "nan" \/ b.k = "nan" THEN NaN
  ELSE IF a.k = "inf"
    THEN IF b.k = "inf" /\ b.s # a.s THEN NaN ELSE a
  ELSE IF b.k = "inf" THEN b
  ELSE [k |-> "fin", micro |-> a.micro + b.micro]

\* F::from(t_stat) of an f64: never None for f32 and f64 (NaN and the
\* infinities convert to themselves), and the rounding to f32 is below the
\* unit for the magnitudes of the tables.
from_t_stat(t_stat) == [some |-> TRUE, value |-> t_stat]

\* Variant: the cubic term is divided by n^2.
calculate_t_stat_from_estimators_square(t, u, v, w, size) ==
  LET n == size
      t_stat == critical_add(
                  critical_add(
                    critical_add([k |-> "fin", micro |-> t], critical_div(u, n)),
                    critical_div(v, n * n)),
                  critical_div(w, n * n))
      converted == from_t_stat(t_stat)
  IN  IF converted.some THEN [kind |-> "Ok", value |-> converted.value]
      ELSE ConversionFailed

\* `t + (u / n) + (v / n.powi(2)) + (w / n.powi(3))`, then F::from.
calculate_t_stat_from_estimators(t, u, v, w, size) ==
  LET n == size
      t_stat == critical_add(
                  critical_add(
                    critical_add([k |-> "fin", micro |-> t], critical_div(u, n)),
                    critical_div(v, n * n)),
                  critical_div(w, n * n * n))
      converted == from_t_stat(t_stat)
  IN  IF converted.some THEN [kind |-> "Ok", value |-> converted.value]
      ELSE ConversionFailed

\* The (t, u, v, w) of the arms of `match alpha` of
\* constant_no_trend_critical_value.
constant_no_trend_estimators(a) ==
  CASE a = "OnePercent" -> <<0 - 3430350, 0 - 6539300, 0 - 16786000, 0 - 79433000>>
    [] a = "TwoPointFivePercent" ->
         <<0 - 3117500, 0 - 4532350, 0 - 9882400, 0 - 57766900>>
    [] a = "FivePercent" -> <<0 - 2861540, 0 - 2861540, 0 - 4234000, 0 - 40040000>>
    [] a = "TenPercent" -> <<0 - 2566770, 0 - 1538400, 0 - 2809000, 0>>

\* The (t, u, v, w) of the arms of no_constant_no_trend_critical_value.
no_constant_no_trend_estimators(a) ==
  CASE a = "OnePercent" -> <<0 - 2565740, 0 - 2235800, 0 - 3627000, 0>>
    [] a = "TwoPointFivePercent" ->
         <<0 - 2222133, 0 - 1153840, 0 - 3482900, 17172650>>
    [] a = "FivePercent" -> <<0 - 1941000, 0 - 268600, 0 - 3365000, 31223000>>
    [] a = "TenPercent" -> <<0 - 1616820, 265600, 0 - 2714000, 25364000>>

\* The (t, u, v, w) of the arms of constant_trend_critical_value.
constant_trend_estimators(a) ==
  CASE a = "OnePercent" -> <<0 - 3958770, 0 - 9053100, 0 - 28428000, 0 - 134155000>>
    [] a = "TwoPointFivePercent" ->
         <<0 - 3657216, 0 - 6488615, 0 - 17762400, 0 - 85325450>>
    [] a = "FivePercent" -> <<0 - 3410490, 0 - 4390400, 0 - 9036000, 0 - 45374000>>
    [] a = "TenPercent" -> <<0 - 3127050, 0 - 2585600, 0 - 3925000, 0 - 22380000>>

constant_no_trend_critical_value(sample_size, a) ==
  LET e == constant_no_trend_estimators(a)
  IN  calculate_t_stat_from_estimators(e[1], e[2], e[3], e[4], sample_size)

no_constant_no_trend_critical_value(sample_size, a) ==
  LET e == no_constant_no_trend_estimators(a)
  IN  calculate_t_stat_from_estimators(e[1], e[2], e[3], e[4], sample_size)

constant_trend_critical_value(sample_size, a) ==
  LET e == constant_trend_estimators(a)
  IN  calculate_t_stat_from_estimators(e[1], e[2], e[3], e[4], sample_size)

\* Variant: Constant and ConstantAndTrend read each other's table.
get_critical_value_swapped(reg, size, a) ==
  CASE reg = "Constant" -> constant_trend_critical_value(size, a)
    [] reg = "ConstantAndTrend" -> constant_no_trend_critical_value(size, a)
    [] reg = "NoConstantNoTrend" -> no_constant_no_trend_critical_value(size, a)

get_critical_value(reg, size, a) ==
  CASE reg = "Constant" -> constant_no_trend_critical_value(size, a)
    [] reg = "ConstantAndTrend" -> constant_trend_critical_value(size, a)
    [] reg = "NoConstantNoTrend" -> no_constant_no_trend_critical_value(size, a)

\* ------------------------------------------------------------------ inputs
Vals == 0..MaxVal

Series == UNION {[1..k -> Vals] : k \in 0..MaxLen}

Lags == 0..MaxLag

\* ------------------------------------------------------------------ machine
\* A caller of the tests: a series, a lag and a regression; it holds no
\* predictor matrix of its own (a matrix without columns) and no sample size.
Init ==
  /\ y \in Series
  /\ lag \in Lags
  /\ regression \in Regression
  /\ predictors = zeros(Len(y), 0)
  /\ sz = 0
  /\ alpha = "OnePercent"
  /\ rounding \in Rounding
  /\ build \in Build
  /\ op = "idle"
  /\ result = NoResult
  /\ returned = {}
  /\ running = <<>>

\* Variant: prepare trims the caller's series itself instead of a clone
\* (`y.remove_row(y_len - 1)` on the argument).
Prepare_in_place ==
  /\ op = "idle"
  /\ op' = "prepare"
  /\ result' = prepare(y, lag, regression)
  /\ y' = IF not_enough_samples(Len(y), lag) THEN y
          ELSE remove_row(y, Len(y) - 1)
  /\ UNCHANGED <<lag, regression, predictors, sz, alpha, rounding, build,
                 returned, running>>

Prepare ==
  /\ op = "idle"
  /\ op' = "prepare"
  /\ result' = prepare(y, lag, regression)
  /\ UNCHANGED <<inputs, returned, running>>

\* Variant: adf_test answers from the outcome of an earlier test on the same
\* series when the caller has one (a cache keyed by the series alone).
AdfTest_cached ==
  /\ op = "idle"
  /\ op' = "adf_test"
  /\ result' = IF \E r \in returned : r.op = "dickeyfuller_test"
                THEN (CHOOSE r \in returned : r.op = "dickeyfuller_test").result
                ELSE adf_test(y, lag, regression)
  /\ UNCHANGED <<inputs, returned, running>>

AdfTest ==
  /\ op = "idle"
  /\ op' = "adf_test"
  /\ result' = adf_test(y, lag, regression)
  /\ UNCHANGED <<inputs, returned, running>>

DickeyFullerTest ==
  /\ op = "idle"
  /\ op' = "dickeyfuller_test"
  /\ result' = dickeyfuller_test(y, regression)
  /\ UNCHANGED <<inputs, returned, running>>

\* ols called on the response vector y and the predictor matrix.
Ols ==
  /\ op = "idle"
  /\ op' = "ols"
  /\ result' = ols(y, predictors)
  /\ UNCHANGED <<inputs, returned, running>>

GetCriticalValue ==
  /\ op = "idle"
  /\ op' = "get_critical_value"
  /\ result' = get_critical_value(regression, sz, alpha)
  /\ UNCHANGED <<inputs, returned, running>>

\* The call has returned to the caller, which still owns its inputs and may
\* invoke another operation on them.
Return ==
  /\ op # "idle"
  /\ op' = "idle"
  /\ result' = NoResult
  /\ UNCHANGED <<inputs, returned, running>>

Next == Prepare \/ AdfTest \/ DickeyFullerTest \/ Return

Spec == Init /\ [][Next]_vars

\* ------------------------------------------------------ ols called directly
\* The vector 1, 2, ..., n (the regressor of the crate's ols tests).
Ramp(n) == [r \in 1..n |-> r]

\* The column of ones that callers add for the intercept.
Ones(n) == [r \in 1..n |-> 1]

\* The vector 1, 0, 1, 0, ...
Alternating(n) == [r \in 1..n |-> r % 2]

\* A constant column other than the ones.
Twos(n) == [r \in 1..n |-> 2]

OlsResponses ==
  UNION {[1..n -> Vals] : n \in 0..MaxOlsLen} \cup {Ramp(n) : n \in 0..MaxOlsLen}

\* The matrices of n rows whose columns, MaxCols at most, are drawn from the
\* ramp, the ones, the alternating column and the twos (a column may
\* repeat).
Predictors(n) ==
  UNION {{[nrows |-> n, ncols |-> k, cols |-> c] :
            c \in [1..k -> {Ramp(n), Ones(n), Alternating(n), Twos(n)}]} :
         k \in 0..MaxCols}

\* A caller of ols: a response vector and a predictor matrix with as many
\* rows.
InitOls ==
  /\ y \in OlsResponses
  /\ predictors \in Predictors(Len(y))
  /\ lag = 0
  /\ regression = "NoConstantNoTrend"
  /\ sz = 0
  /\ alpha = "OnePercent"
  /\ rounding \in Rounding
  /\ build \in Build
  /\ op = "idle"
  /\ result = NoResult
  /\ returned = {}
  /\ running = <<>>

NextOls == Ols \/ Return

SpecOls == InitOls /\ [][NextOls]_vars

\* ------------------------------------------- the tests and ols side by side
InitCalls == Init \/ InitOls

NextCalls == Prepare \/ AdfTest \/ DickeyFullerTest \/ Ols \/ Return

SpecCalls == InitCalls /\ [][NextCalls]_vars

\* ------------------------------------------------- critical-value look-ups
\* The sample sizes of the crate's critical-value tests.
TestedSizes == {25, 50, 100}

Sizes == 0..MaxSize \cup TestedSizes

InitCritical ==
  /\ regression \in Regression
  /\ sz \in Sizes
  /\ alpha \in AlphaLevel
  /\ y = <<>>
  /\ lag = 0
  /\ predictors = zeros(0, 0)
  /\ rounding \in Rounding
  /\ build \in Build
  /\ op = "idle"
  /\ result = NoResult
  /\ returned = {}
  /\ running = <<>>

NextCritical == GetCriticalValue \/ Return

SpecCritical == InitCritical /\ [][NextCritical]_vars

\* ------------------------------------------- prepare on the worked examples
\* The n-th triangular number; the series of the crate's prepare tests is
\* Triangular(1), ..., Triangular(10).
Triangular(k) == (k * (k + 1)) \div 2

ExampleSeries ==
  {[i \in 1..k |-> Triangular(s + i)] :
     s \in 0..MaxExampleStart, k \in 0..MaxExampleLen}

InitExample ==
  /\ y \in ExampleSeries
  /\ lag \in Lags
  /\ regression \in Regression
  /\ predictors = zeros(Len(y), 0)
  /\ sz = 0
  /\ alpha = "OnePercent"
  /\ rounding \in Rounding
  /\ build \in Build
  /\ op = "idle"
  /\ result = NoResult
  /\ returned = {}
  /\ running = <<>>

NextExample == Prepare \/ Return

SpecExample == InitExample /\ [][NextExample]_vars

\* ------------------------------------------------ calls repeated by a caller
\* The caller takes the outcome of the call that returned and notes it down;
\* the crate itself keeps nothing between calls (no static, no cache, no
\* interior mutability: every function takes `&` arguments and owns its
\* locals).
Record ==
  /\ op # "idle"
  /\ returned' = returned \cup {[op |-> op, result |-> result]}
  /\ op' = "idle"
  /\ result' = NoResult
  /\ UNCHANGED <<inputs, running>>

RepeatSeries == UNION {[1..k -> Vals] : k \in 0..MaxRepeatLen}

\* A caller that holds a series, a lag, a regression, one regressor for ols
\* (the ramp) and a sample size for the critical value, and calls the five
\* functions on them in any order, any number of times.
InitRepeat ==
  /\ y \in RepeatSeries
  /\ lag \in Lags
  /\ regression \in Regression
  /\ predictors = [nrows |-> Len(y), ncols |-> 1, cols |-> <<Ramp(Len(y))>>]
  /\ sz = Len(y)
  /\ alpha = "FivePercent"
  /\ rounding \in Rounding
  /\ build \in Build
  /\ op = "idle"
  /\ result = NoResult
  /\ returned = {}
  /\ running = <<>>

NextRepeat ==
  Prepare \/ AdfTest \/ DickeyFullerTest \/ Ols \/ GetCriticalValue \/ Record

SpecRepeat == InitRepeat /\ [][NextRepeat]_vars

\* ------------------------------------------ invocations running side by side
\* The state of one invocation of a test: its arguments, where it is in the
\* body (`start`, `prepared` after `tools::prepare(..)?`, `done`), the tuple
\* prepare gave it, what it returned, and how often it called prepare and
\* ols.
invocation(test, series, l, reg, pc, locals, outcome, prepare_calls, ols_calls) ==
  [test |-> test, series |-> series, lag |-> l, regression |-> reg,
   pc |-> pc, locals |-> locals, outcome |-> outcome,
   prepare_calls |-> prepare_calls, ols_calls |-> ols_calls]

\* The lag an invocation hands to prepare: `prepare(series, 0, regression)`
\* in dickeyfuller_test, `tools::prepare(y, lag, regression)` in adf_test.
lag_of(c) == IF c.test = "dickeyfuller_test" THEN 0 ELSE c.lag

\* `let (delta_y, x, size) = tools::prepare(y, lag, regression)?;`
after_prepare(c) ==
  LET p == prepare(c.series, lag_of(c), c.regression) IN
  IF p.kind # "Ok"
    THEN invocation(c.test, c.series, c.lag, c.regression, "done", c.locals, p,
                    c.prepare_calls + 1, c.ols_calls)
    ELSE invocation(c.test, c.series, c.lag, c.regression, "prepared", p,
                    c.outcome, c.prepare_calls + 1, c.ols_calls)

\* Variant: a failure of ols is answered with a Report of a NaN statistic.
after_ols_masks_failure(c, p) ==
  LET o == ols(p.delta_y, p.x)
      report == IF o.kind # "Ok"
                  THEN [kind |-> "Ok", test_statistic |-> NaN, size |-> p.size]
                  ELSE [kind |-> "Ok", test_statistic |-> o.t_statistics[0 + 1],
                        size |-> p.size]
  IN  invocation(c.test, c.series, c.lag, c.regression, "done", c.locals,
                 report, c.prepare_calls, c.ols_calls + 1)

\* `let (_betas, t_stats) = ols(&delta_y, &x)?; Ok(Report { .. })` on the
\* tuple p that prepare returned.
after_ols(c, p) ==
  LET o == ols(p.delta_y, p.x)
      report == IF o.kind # "Ok" THEN o
                ELSE [kind |-> "Ok", test_statistic |-> o.t_statistics[0 + 1],
                      size |-> p.size]
  IN  invocation(c.test, c.series, c.lag, c.regression, "done", c.locals,
                 report, c.prepare_calls, c.ols_calls + 1)

\* Invocation t runs its call of prepare.
StepPrepare(t) ==
  /\ running[t].pc = "start"
  /\ running' = [u \in DOMAIN running |->
                   IF u = t THEN after_prepare(running[t]) ELSE running[u]]
  /\ UNCHANGED <<inputs, op, result, returned>>

\* Variant: the response and the design matrix are passed to ols through a
\* buffer all invocations share; it holds what the first invocation
\* prepared, once it has.
StepOls_shared_buffer(t) ==
  /\ running[t].pc = "prepared"
  /\ running' = [u \in DOMAIN running |->
                   IF u = t
                     THEN after_ols(running[t],
                                    IF running[1].pc # "start"
                                         /\ running[1].locals # NoResult
                                      THEN running[1].locals
                                      ELSE running[t].locals)
                     ELSE running[u]]
  /\ UNCHANGED <<inputs, op, result, returned>>

\* Invocation t runs its call of ols on its own delta_y and x and returns.
StepOls(t) ==
  /\ running[t].pc = "prepared"
  /\ running' = [u \in DOMAIN running |->
                   IF u = t THEN after_ols(running[t], running[t].locals)
                   ELSE running[u]]
  /\ UNCHANGED <<inputs, op, result, returned>>

ConcurrentSeries ==
  {Alternating(k) : k \in 0..MaxConcurrentLen}
    \cup {Ramp(k) : k \in 0..MaxConcurrentLen}

\* The invocations that have not started: adf_test with a lag, and
\* dickeyfuller_test, which takes none.
Invocations ==
  {invocation("adf_test", s, l, reg, "start", NoResult, NoResult, 0, 0) :
     s \in ConcurrentSeries, l \in 0..MaxConcurrentLag, reg \in Regression}
  \cup
  {invocation("dickeyfuller_test", s, 0, reg, "start", NoResult, NoResult, 0, 0) :
     s \in ConcurrentSeries, reg \in Regression}

\* MaxInvocations invocations, each on arguments of its own, on one platform;
\* no sequential caller.
InitConcurrent ==
  /\ running \in [1..MaxInvocations -> Invocations]
  /\ y = <<>>
  /\ lag = 0
  /\ regression = "NoConstantNoTrend"
  /\ predictors = zeros(0, 0)
  /\ sz = 0
  /\ alpha = "OnePercent"
  /\ rounding \in Rounding
  /\ build \in Build
  /\ op = "idle"
  /\ result = NoResult
  /\ returned = {}

\* Any invocation that can take a step takes it: every interleaving.
NextConcurrent ==
  \E t \in DOMAIN running : StepPrepare(t) \/ StepOls(t)

SpecConcurrent == InitConcurrent /\ [][NextConcurrent]_vars

\* ================================================================== claims
\* The lag a test invocation hands to prepare: dickeyfuller_test fixes it to 0.
LagOf(o) == IF o = "dickeyfuller_test" THEN 0 ELSE lag

Tests == {"adf_test", "dickeyfuller_test"}

\* C1 (as stated): for every series of length n > l + 1 and every regression
\* spec, adf_test returns a Report whose size is n - l - 1, and
\* dickeyfuller_test returns one whose size is n - 1.
C1_AlwaysReportOfSize ==
  (op \in Tests /\ Len(y) > LagOf(op) + 1)
    => (result.kind = "Ok" /\ result.size = Len(y) - LagOf(op) - 1)

\* C1 (amended): every Report that adf_test returns for a series of length
\* n and lag l has n > l + 1 and size n - l - 1, and every Report that
\* dickeyfuller_test returns has size n - 1; a test on such a series may
\* instead fail (FailedToInvertMatrix when X'X is singular).
C1_ReportSize ==
  (op \in Tests /\ result.kind = "Ok")
    => (Len(y) > LagOf(op) + 1 /\ result.size = Len(y) - LagOf(op) - 1)

C1_Witness ==
  /\ op = "adf_test" /\ lag = 2 /\ Len(y) = 7
  /\ result.kind = "Ok" /\ result.size = 4
  /\ result.test_statistic.k = "t"

\* C2: a series of length n <= l + 1 (the empty and the one-element series
\* included) makes prepare, adf_test and dickeyfuller_test (l = 0) fail with
\* NotEnoughSamples, whatever the regression spec; no Report is returned.
C2_NotEnoughSamples ==
  (op # "idle" /\ Len(y) <= LagOf(op) + 1)
    => (result = NotEnoughSamples /\ result.kind # "Ok")

C2_Witness ==
  /\ op = "adf_test" /\ lag = 2 /\ Len(y) = lag + 1
  /\ result = NotEnoughSamples

\* Index of the statistic the tests report: `t_stats[0]`.
LevelIndex == 0

\* The lagged level y[t-1] for t = l + 1 .. n - 1, written from the series.
LaggedLevel(yv, l) == [r \in 1..(Len(yv) - l - 1) |-> yv[r + l]]

\* C3: adf_test(y, 0, spec) and dickeyfuller_test(y, spec) give the same
\* outcome for every series and spec: the same error, or Reports with the
\* same test_statistic and the same size (two NaN statistics produced by the
\* same computation count as the same outcome).
C3_AdfLag0IsDickeyFuller ==
  /\ (op = "adf_test" /\ lag = 0) => result = dickeyfuller_test(y, regression)
  /\ op = "dickeyfuller_test" => result = adf_test(y, 0, regression)

C3_Witness ==
  /\ op = "dickeyfuller_test" /\ regression = "ConstantAndTrend"
  /\ result.kind = "Ok" /\ result.test_statistic.k = "t"
  /\ result.test_statistic.s # 0
  /\ result.test_statistic = adf_test(y, 0, regression).test_statistic

\* C4: the test_statistic of a Report is the t-statistic ols computes for
\* the design-matrix column holding the lagged level y[t-1]; prepare builds
\* that column as column 0 and the tests read index 0 of the t-statistic
\* vector, for each of the three specs and every lag.
C4_StatisticOfLaggedLevel ==
  (op \in Tests /\ result.kind = "Ok") =>
    LET p == prepare(y, LagOf(op), regression)
        o == ols(p.delta_y, p.x)
        level == LaggedLevel(y, LagOf(op))
    IN  /\ p.x.cols[LevelIndex + 1] = level
        /\ result.test_statistic = o.t_statistics[LevelIndex + 1]
        /\ \A j \in 1..p.x.ncols :
             p.x.cols[j] = level => result.test_statistic = o.t_statistics[j]

C4_Witness ==
  /\ op = "adf_test" /\ lag = 1 /\ regression = "ConstantAndTrend"
  /\ result.kind = "Ok" /\ result.test_statistic.k = "t"
  /\ LET p == prepare(y, lag, regression)
         o == ols(p.delta_y, p.x)
     IN  /\ p.x.ncols = 4
         /\ \A j \in 2..4 : o.t_statistics[j] # result.test_statistic

\* Number of deterministic regressors of a regression spec.
Extra(reg) ==
  CASE reg = "NoConstantNoTrend" -> 0
    [] reg = "Constant" -> 1
    [] reg = "ConstantAndTrend" -> 2

\* C5: for a series of length n > lag + 1 prepare returns a matrix of
\* exactly n - lag - 1 rows and lag + 1 + extra columns (extra = 0, 1, 2 for
\* NoConstantNoTrend, Constant, ConstantAndTrend).
C5_MatrixShape ==
  (op = "prepare" /\ Len(y) > lag + 1) =>
    /\ result.kind = "Ok"
    /\ result.x.nrows = Len(y) - lag - 1
    /\ result.x.ncols = lag + 1 + Extra(regression)
    /\ Len(result.x.cols) = lag + 1 + Extra(regression)
    /\ \A c \in 1..Len(result.x.cols) :
         Len(result.x.cols[c]) = Len(y) - lag - 1

C5_Witness ==
  /\ op = "prepare" /\ lag = 2 /\ regression = "ConstantAndTrend"
  /\ Len(y) = 6 /\ result.kind = "Ok"
  /\ result.x.nrows = 3 /\ result.x.ncols = 5

\* Element i (0-based, as in the code) of a vector.
At(v, i) == v[i + 1]

\* C6: row alignment of prepare.  For every row r in 0 .. n-lag-2, with
\* t = r + lag + 1, entry r of the response is y[t] - y[t-1] and column 0 of
\* the matrix holds y[t-1] at row r; the response has n - lag - 1 entries.
C6_RowAlignment ==
  (op = "prepare" /\ result.kind = "Ok") =>
    /\ Len(result.delta_y) = Len(y) - lag - 1
    /\ \A r \in 0..(Len(y) - lag - 2) :
         LET t == r + lag + 1
         IN  /\ At(result.delta_y, r) = At(y, t) - At(y, t - 1)
             /\ At(result.x.cols[1], r) = At(y, t - 1)

C6_Witness ==
  /\ op = "prepare" /\ lag = 2 /\ Len(y) = 7 /\ result.kind = "Ok"
  /\ At(result.delta_y, 0) # At(result.delta_y, 1)
  /\ At(result.x.cols[1], 0) # At(result.x.cols[1], 1)
  /\ At(y, 0) # At(y, 2)

\* C7: for lag >= 1 and i in 1..lag, column i of the matrix is the i-th lag
\* of the first difference: at row r (t = r + lag + 1) it holds
\* y[t-i] - y[t-i-1].
C7_LagColumns ==
  (op = "prepare" /\ result.kind = "Ok") =>
    \A i \in 1..lag : \A r \in 0..(Len(y) - lag - 2) :
      LET t == r + lag + 1
      IN  At(result.x.cols[i + 1], r) = At(y, t - i) - At(y, t - i - 1)

C7_Witness ==
  /\ op = "prepare" /\ lag = 2 /\ Len(y) = 7 /\ result.kind = "Ok"
  /\ result.x.cols[2] # result.x.cols[3]
  /\ result.x.cols[2] # result.delta_y

\* The first difference of a series: entry d (0-based) is y[d+1] - y[d].
FirstDifference(yv) == [d \in 1..(Len(yv) - 1) |-> yv[d + 1] - yv[d]]

\* C8 (as stated): column i (1 <= i <= lag) is the first difference shifted
\* by lag - i + 1 positions: at row r it holds the first difference taken
\* lag - i + 1 time steps before the response entry of row r.
C8_ShiftedByLagMinusI ==
  (op = "prepare" /\ result.kind = "Ok") =>
    \A i \in 1..lag : \A r \in 0..(Len(y) - lag - 2) :
      At(result.x.cols[i + 1], r)
        = At(FirstDifference(y), (r + lag) - (lag - i + 1))

\* C8 (amended): column i (1 <= i <= lag) is the first difference shifted by
\* i positions: at row r it holds the first difference taken i time steps
\* before the response entry of row r.
C8_ShiftedByI ==
  (op = "prepare" /\ result.kind = "Ok") =>
    \A i \in 1..lag : \A r \in 0..(Len(y) - lag - 2) :
      /\ At(result.delta_y, r) = At(FirstDifference(y), r + lag)
      /\ At(result.x.cols[i + 1], r) = At(FirstDifference(y), (r + lag) - i)

C8_Witness ==
  /\ op = "prepare" /\ lag = 2 /\ Len(y) = 6 /\ result.kind = "Ok"
  /\ At(result.x.cols[2], 0) = At(FirstDifference(y), 1)
  /\ At(result.x.cols[2], 0) # At(FirstDifference(y), 0)

\* C9: deterministic regressors.  NoConstantNoTrend appends nothing after
\* the lag columns; Constant appends one last column of ones;
\* ConstantAndTrend appends a column of ones and then a last column holding
\* r + 1 at row r (1 .. rows).
C9_DeterministicRegressors ==
  (op = "prepare" /\ result.kind = "Ok") =>
    LET x == result.x
        rows == x.nrows
    IN  /\ regression = "NoConstantNoTrend" => Len(x.cols) = lag + 1
        /\ regression = "Constant" =>
             /\ Len(x.cols) = lag + 2
             /\ \A r \in 0..(rows - 1) : At(x.cols[lag + 2], r) = 1
        /\ regression = "ConstantAndTrend" =>
             /\ Len(x.cols) = lag + 3
             /\ \A r \in 0..(rows - 1) :
                  /\ At(x.cols[lag + 2], r) = 1
                  /\ At(x.cols[lag + 3], r) = r + 1

C9_Witness ==
  /\ op = "prepare" /\ lag = 1 /\ regression = "ConstantAndTrend"
  /\ result.kind = "Ok" /\ result.x.nrows = 5
  /\ result.x.cols[3] = <<1, 1, 1, 1, 1>>
  /\ result.x.cols[4] = <<1, 2, 3, 4, 5>>

\* The series, lag and expected matrix of test_prepare_constant,
\* test_prepare_constant_and_trend and test_prepare_no_constant_no_trend.
ExampleY == <<1, 3, 6, 10, 15, 21, 28, 36, 45, 55>>

ExampleLag == 2

ExampleResponse == <<4, 5, 6, 7, 8, 9, 10>>

ExampleRows ==
  <<<<6, 3, 2, 1>>, <<10, 4, 3, 1>>, <<15, 5, 4, 1>>, <<21, 6, 5, 1>>,
    <<28, 7, 6, 1>>, <<36, 8, 7, 1>>, <<45, 9, 8, 1>>>>

\* The matrix whose rows are the first ncols entries of the given rows,
\* followed by the given extra columns.
FromRows(rows, ncols, more) ==
  [nrows |-> Len(rows), ncols |-> ncols + Len(more),
   cols |-> [c \in 1..ncols |-> [r \in 1..Len(rows) |-> rows[r][c]]] \o more]

\* C10: worked example.  For the series [1,3,6,10,15,21,28,36,45,55] and
\* lag 2 prepare returns size 7 and response [4,5,6,7,8,9,10]; the matrix is
\* [[6,3,2,1],[10,4,3,1],...,[45,9,8,1]] with Constant, the same without its
\* last column with NoConstantNoTrend, and the same with an extra last
\* column 1,2,...,7 with ConstantAndTrend.
C10_WorkedExample ==
  (op = "prepare" /\ y = ExampleY /\ lag = ExampleLag) =>
    /\ result.kind = "Ok"
    /\ result.size = 7
    /\ result.delta_y = ExampleResponse
    /\ regression = "Constant" => result.x = FromRows(ExampleRows, 4, <<>>)
    /\ regression = "NoConstantNoTrend" =>
         result.x = FromRows(ExampleRows, 3, <<>>)
    /\ regression = "ConstantAndTrend" =>
         result.x = FromRows(ExampleRows, 4, <<<<1, 2, 3, 4, 5, 6, 7>>>>)

C10_Witness ==
  /\ op = "prepare" /\ y = ExampleY /\ lag = ExampleLag
  /\ regression = "Constant"
  /\ result.kind = "Ok" /\ result.x.cols[1] = <<6, 10, 15, 21, 28, 36, 45>>

\* ---------------------------------------------------- outcomes of the calls
ErrorKinds == {"NotEnoughSamples", "FailedToInvertMatrix", "ConversionFailed"}

Calls == {"adf_test", "dickeyfuller_test", "ols"}

\* C11: every invocation of adf_test, dickeyfuller_test or ols, for any
\* series, lag and regression (too short a series and a singular predictor
\* matrix included), ends with a success value or with one of the three
\* error kinds NotEnoughSamples, FailedToInvertMatrix and ConversionFailed;
\* it never panics.
C11_NeverPanics ==
  op \in Calls =>
    \/ result.kind = "Ok"
    \/ result.kind = "Err" /\ result.error \in ErrorKinds

\* X'X of the matrix m, as ols forms it.
Gram(m) ==
  [i \in 1..m.ncols |-> [j \in 1..m.ncols |-> dot(m.cols[i], m.cols[j], m.nrows)]]

Singular(m) == Det(Gram(m)) = 0

\* C12: whenever X'X is singular, ols returns FailedToInvertMatrix with a
\* non-empty diagnostic message, and no coefficients or t-statistics.
C12_SingularIsAnError ==
  (op = "ols" /\ Singular(predictors)) =>
    /\ result.kind = "Err"
    /\ result.error = "FailedToInvertMatrix"
    /\ result.message # ""
    /\ DOMAIN result = {"kind", "error", "message"}

\* The t-statistic zero (a finite coefficient over an infinite standard error).
Zero == [k |-> "t", s |-> 0, q |-> QInt(0)]

Square(m) == m.nrows = m.ncols

\* C13 as stated: when the predictor matrix has as many rows as columns and
\* X'X is invertible, ols returns Ok with its coefficients and every
\* t-statistic it returns is infinite or NaN.
C13_SquareGivesNonFinite ==
  (op = "ols" /\ Square(predictors) /\ ~Singular(predictors)) =>
    /\ result.kind = "Ok"
    /\ Len(result.beta) = predictors.ncols
    /\ \A i \in 1..predictors.ncols : result.t_statistics[i].k \in {"nan", "inf"}

\* C13, amended: when the predictor matrix has as many rows as columns and
\* X'X is invertible, ols does not panic and returns Ok with its
\* coefficients; the residual variance divided by m - k = 0 is NaN or
\* +Infinity, and every t-statistic returned is NaN or zero.
C13_SquareGivesNaNOrZero ==
  (op = "ols" /\ Square(predictors) /\ ~Singular(predictors)) =>
    /\ result.kind = "Ok"
    /\ Len(result.beta) = predictors.ncols
    /\ \A i \in 1..predictors.ncols : result.t_statistics[i] \in {NaN, Zero}

C13_Witness ==
  /\ op = "ols" /\ Square(predictors) /\ ~Singular(predictors)
  /\ predictors.ncols = 2
  /\ rounding = "inexact"
  /\ result.kind = "Ok"
  /\ result.beta[1].n # 0
  /\ result.t_statistics[1] = Zero

\* The coefficients and standard errors ols computes for the response yv
\* and the matrix m (X'X invertible, no fewer rows than columns).
Terms(yv, m) == ols_terms(yv, m, try_inverse(Gram(m)).value)

Estimable(m) == ~Singular(m) /\ m.nrows >= m.ncols

ZeroError(se) == se.k = "root" /\ se.q.n = 0

\* The quotient of the coefficient b by a zero standard error.
OverZero(b) == IF b.n = 0 THEN NaN ELSE Infinity(Sign(b.n))

\* C14: a non-finite t-statistic is a successful result: when the standard
\* error of a coefficient is zero (perfect fit), ols and adf_test return Ok,
\* with the t-statistic NaN where the coefficient is zero too and
\* +/-Infinity, of the sign of the coefficient, where it is not; no error is
\* produced for that reason.
C14_ZeroStandardError ==
  /\ (op = "ols" /\ Estimable(predictors)) =>
       \A i \in 1..predictors.ncols :
         ZeroError(Terms(y, predictors).se[i]) =>
           /\ result.kind = "Ok"
           /\ result.beta[i] = Terms(y, predictors).beta[i]
           /\ result.t_statistics[i] = OverZero(Terms(y, predictors).beta[i])
  /\ (op = "adf_test" /\ prepare(y, lag, regression).kind = "Ok") =>
       LET p == prepare(y, lag, regression)
       IN  (Estimable(p.x) /\ ZeroError(Terms(p.delta_y, p.x).se[LevelIndex + 1])) =>
             /\ result.kind = "Ok"
             /\ result.test_statistic =
                  OverZero(Terms(p.delta_y, p.x).beta[LevelIndex + 1])

\* adf_test on the series 0,1,0,1,0: the differences are 1 - 2 * level.
C14_Witness ==
  /\ op = "adf_test" /\ y = <<0, 1, 0, 1, 0>> /\ lag = 0
  /\ regression = "Constant" /\ rounding = "exact"
  /\ result.kind = "Ok"
  /\ result.test_statistic = Infinity(0 - 1)

\* The response and the regressor of test_ols_f32 and test_ols_f64.
OlsExampleLen == 5

OlsExample ==
  [nrows |-> OlsExampleLen, ncols |-> 2,
   cols |-> <<Ramp(OlsExampleLen), Ones(OlsExampleLen)>>]

\* C15: worked example.  Regressing y = [1,2,3,4,5] on the columns
\* x = [1,2,3,4,5] and ones gives slope exactly 1.0 and intercept exactly
\* 0.0, with the slope's t-statistic +Infinity and the intercept's NaN.
\* (The values are the integers themselves, on which the floating type
\* computes exactly.)
C15_OlsWorkedExample ==
  (/\ op = "ols" /\ rounding = "exact"
   /\ y = Ramp(OlsExampleLen) /\ predictors = OlsExample) =>
    /\ result.kind = "Ok"
    /\ result.beta = <<QInt(1), QInt(0)>>
    /\ result.t_statistics = <<Infinity(1), NaN>>

C15_Witness ==
  /\ op = "ols" /\ rounding = "exact"
  /\ y = Ramp(OlsExampleLen) /\ predictors = OlsExample
  /\ result.kind = "Ok"
  /\ result.t_statistics[1] = Infinity(1)

\* --------------------------------------------------------- critical values
\* The constants of the table that belongs to a regression.
EstimatorsOf(reg, a) ==
  CASE reg = "Constant" -> constant_no_trend_estimators(a)
    [] reg = "ConstantAndTrend" -> constant_trend_estimators(a)
    [] reg = "NoConstantNoTrend" -> no_constant_no_trend_estimators(a)

\* The function of the crate that is named after the regression.
SpecificValue(reg, size, a) ==
  CASE reg = "Constant" -> constant_no_trend_critical_value(size, a)
    [] reg = "ConstantAndTrend" -> constant_trend_critical_value(size, a)
    [] reg = "NoConstantNoTrend" -> no_constant_no_trend_critical_value(size, a)

\* c / n truncated to the unit (n > 0).
Truncated(c, n) == Sign(c) * (Abs(c) \div n)

\* t + u/n + v/n^2 + w/n^3 evaluated as t + (u + (v + w/n)/n)/n, in units of
\* 1e-6 (n > 0); within 3 units of the exact value.
Polynomial(e, n) ==
  e[1] + Truncated(e[2] + Truncated(e[3] + Truncated(e[4], n), n), n)

\* C17: for each of the 3 regressions and 4 alpha levels,
\* get_critical_value(regression, n, alpha) is t + u/n + v/n^2 + w/n^3 for
\* the constants (t, u, v, w) of that pair, one of 12 tuples; Constant reads
\* the constant-no-trend table, ConstantAndTrend the constant-and-trend table
\* and NoConstantNoTrend the no-constant-no-trend table, so that the result
\* is that of the function named after the regression, for every sample
\* size (with n = 0 the divisions give an infinite or NaN value).
C17_CriticalValueFormula ==
  op = "get_critical_value" =>
    /\ result = SpecificValue(regression, sz, alpha)
    /\ result.kind = "Ok"
    /\ sz > 0 =>
         /\ result.value.k = "fin"
         /\ Abs(result.value.micro - Polynomial(EstimatorsOf(regression, alpha), sz)) <= 6
    /\ sz = 0 => result.value.k \in {"nan", "inf"}
    /\ Cardinality({EstimatorsOf(r, a) : r \in Regression, a \in AlphaLevel}) = 12

C17_Witness ==
  /\ op = "get_critical_value"
  /\ regression = "ConstantAndTrend" /\ sz = 50 /\ alpha = "FivePercent"
  /\ result.kind = "Ok"
  /\ result.value.k = "fin"
  /\ result.value.micro < 0 - 3500000
  /\ result.value.micro > 0 - 3510000

\* Whether the value v is within 1e-3 of the reference (in units of 1e-6),
\* with the 3 units of the truncations as a margin.
Near(v, reference) == v.k = "fin" /\ Abs(v.micro - reference) <= 1000 - 3

\* C18: the approximation is within 1e-3 of the reference table at the
\* tested points: -3.724 for (Constant, 25, 1%), -2.234 for
\* (NoConstantNoTrend, 100, 2.5%), -3.181 for (ConstantAndTrend, 50, 10%),
\* and -3.318, -2.986, -2.633 for Constant at n = 25 and 2.5%, 5%, 10%.
C18_TestedPoints ==
  (op = "get_critical_value" /\ result.kind = "Ok") =>
    /\ (regression = "Constant" /\ sz = 25 /\ alpha = "OnePercent") =>
         Near(result.value, 0 - 3724000)
    /\ (regression = "NoConstantNoTrend" /\ sz = 100
          /\ alpha = "TwoPointFivePercent") =>
         Near(result.value, 0 - 2234000)
    /\ (regression = "ConstantAndTrend" /\ sz = 50 /\ alpha = "TenPercent") =>
         Near(result.value, 0 - 3181000)
    /\ (regression = "Constant" /\ sz = 25 /\ alpha = "TwoPointFivePercent") =>
         Near(result.value, 0 - 3318000)
    /\ (regression = "Constant" /\ sz = 25 /\ alpha = "FivePercent") =>
         Near(result.value, 0 - 2986000)
    /\ (regression = "Constant" /\ sz = 25 /\ alpha = "TenPercent") =>
         Near(result.value, 0 - 2633000)

C18_Witness ==
  /\ op = "get_critical_value"
  /\ regression = "Constant" /\ sz = 25 /\ alpha = "OnePercent"
  /\ result.kind = "Ok"
  /\ Near(result.value, 0 - 3724000)

\* ------------------------------------------------- the vectors ols returns
\* C19: in the coefficient vector and in the t-statistic vector returned by
\* ols, the intercept (the coefficient of the column of ones) is the first
\* entry, index 0.
C19_InterceptFirst ==
  (op = "ols" /\ result.kind = "Ok" /\ predictors.nrows > 0) =>
    \A j \in 1..predictors.ncols :
      predictors.cols[j] = Ones(predictors.nrows) =>
        /\ result.beta[j] = result.beta[0 + 1]
        /\ result.t_statistics[j] = result.t_statistics[0 + 1]

\* Whether the coefficients b solve row i of the normal equations of the
\* response yv and the matrix m, that is, whether entry i goes with column i.
SolvesRow(b, yv, m, i) ==
  QSum([j \in 1..m.ncols |-> QMul(QInt(Gram(m)[i][j]), b[j])], m.ncols)
    = QInt(dot(m.cols[i], yv, m.nrows))

\* Whether the vectors of the result o have one entry per column of m, the
\* entries of the columns in the order of the columns.
OnePerColumn(o, yv, m) ==
  /\ Len(o.beta) = m.ncols
  /\ Len(o.t_statistics) = m.ncols
  /\ Estimable(m) =>
       \A i \in 1..m.ncols :
         /\ SolvesRow(o.beta, yv, m, i)
         /\ (o.t_statistics[i].k \in {"t", "inf"} /\ o.t_statistics[i].s # 0) =>
              o.t_statistics[i].s = Sign(o.beta[i].n)

Outcomes ==
  returned \cup (IF op = "idle" THEN {} ELSE {[op |-> op, result |-> result]})

Alone(c) ==
  IF c.test = "dickeyfuller_test" THEN dickeyfuller_test(c.series, c.regression)
  ELSE adf_test(c.series, c.lag, c.regression)

\* C22: invocations of adf_test and dickeyfuller_test that run side by side
\* on inputs of their own return, under every interleaving of their steps,
\* the Report or the error each returns when run alone; an invocation that
\* has not finished holds no outcome, and what it holds from prepare is what
\* prepare gives for its own arguments.
C22_AsIfAlone ==
  \A t \in DOMAIN running :
    LET c == running[t] IN
    /\ c.pc = "done" => c.outcome = Alone(c)
    /\ c.pc # "done" => c.outcome = NoResult
    /\ c.pc = "prepared" => c.locals = prepare(c.series, lag_of(c), c.regression)

C22_Witness ==
  /\ Len(running) >= 2
  /\ running[1].pc = "done" /\ running[1].outcome.kind = "Ok"
  /\ running[1].outcome.test_statistic.k = "t"
  /\ running[2].pc = "prepared"
  /\ running[2].series # running[1].series
  /\ Alone(running[2]) = FailedToInvertMatrix

\* C23: in adf_test and dickeyfuller_test an error of prepare is returned as
\* it is and ols is not invoked; when prepare succeeds and ols fails, the
\* error of ols is returned as it is; no error becomes another kind, is
\* retried (each function is called once at most) or is replaced by a
\* Report (a Report comes only from a prepare and an ols that both succeeded).
C23_ErrorsPropagate ==
  \A t \in DOMAIN running :
    LET c == running[t]
        p == prepare(c.series, lag_of(c), c.regression)
    IN  c.pc = "done" =>
          /\ c.prepare_calls = 1
          /\ p.kind = "Err" =>
                (c.outcome = p /\ c.outcome.kind = "Err" /\ c.ols_calls = 0)
          /\ p.kind = "Ok" =>
                LET o == ols(p.delta_y, p.x) IN
                /\ c.ols_calls = 1
                /\ o.kind = "Err" => (c.outcome = o /\ c.outcome.kind = "Err")
                /\ c.outcome.kind = "Ok" => o.kind = "Ok"
          /\ c.outcome.kind = "Ok" => p.kind = "Ok"

C23_Witness ==
  /\ Len(running) >= 2
  /\ running[1].pc = "done" /\ running[1].outcome = NotEnoughSamples
  /\ running[1].ols_calls = 0 /\ running[1].prepare_calls = 1
  /\ running[2].pc = "done" /\ running[2].outcome = FailedToInvertMatrix
  /\ running[2].ols_calls = 1 /\ running[2].prepare_calls = 1
  /\ running[2].locals.kind = "Ok"

\* C24: for every predictor matrix X with invertible X'X and every response
\* y, ols returns Ok and its coefficient vector solves the normal equations
\* X'X beta = X'y (so it is (X'X)^-1 X'y); for a matrix of one column x this
\* is beta = sum(x_i * y_i) / sum(x_i^2).
C24_NormalEquations ==
  (op = "ols" /\ ~Singular(predictors)) =>
    /\ result.kind = "Ok"
    /\ Len(result.beta) = predictors.ncols
    /\ \A i \in 1..predictors.ncols : SolvesRow(result.beta, y, predictors, i)
    /\ predictors.ncols = 1 =>
         result.beta[1]
           = Q(dot(predictors.cols[1], y, predictors.nrows),
               dot(predictors.cols[1], predictors.cols[1], predictors.nrows))

C24_Witness ==
  /\ op = "ols" /\ ~Singular(predictors) /\ result.kind = "Ok"
  /\ predictors.ncols = 3 /\ predictors.nrows = 5
  /\ \A i \in 1..3 : result.beta[i].n # 0 /\ result.beta[i].d # 1
  /\ \A i \in 1..3 : SolvesRow(result.beta, y, predictors, i)

\* The sum of the squared residuals y - X b.
ResidualSquares(b, yv, m) ==
  QSum([r \in 1..m.nrows |->
         LET fit == QSum([j \in 1..m.ncols |->
                           QMul(QInt(m.cols[j][r]), b[j])], m.ncols)
             e == QSub(QInt(yv[r]), fit)
         IN  QMul(e, e)],
       m.nrows)

\* C25: for a matrix of m rows and k < m columns with invertible X'X, the
\* t-statistic ols returns for coefficient i is beta_i divided by
\* sqrt(((X'X)^-1)_ii * RSS / (m - k)), RSS the sum of the squared residuals
\* y - X beta: the divisor is m - k, not m.  With RSS = 0 the quotient is
\* taken over a zero standard error (what rounding makes of it then is the
\* matter of C13 and C14).
C25_StudentT ==
  (op = "ols" /\ Estimable(predictors)
     /\ predictors.nrows > predictors.ncols) =>
    /\ result.kind = "Ok"
    /\ LET gram == Gram(predictors)
           rss == ResidualSquares(result.beta, y, predictors)
           dof == predictors.nrows - predictors.ncols
       IN  \A i \in 1..predictors.ncols :
             LET b == result.beta[i]
                 inv_ii == Q(Det(Minor(gram, i, i)), Det(gram))
                 variance == QMul(inv_ii, QMul(rss, Q(1, dof)))
             IN  /\ rss.n # 0 =>
                      result.t_statistics[i]
                        = [k |-> "t", s |-> Sign(b.n),
                           q |-> QMul(QMul(b, b), Q(variance.d, variance.n))]
                 /\ (rss.n = 0 /\ rounding = "exact") =>
                      result.t_statistics[i] = OverZero(b)

C25_Witness ==
  /\ op = "ols" /\ Estimable(predictors) /\ result.kind = "Ok"
  /\ predictors.nrows = 5 /\ predictors.ncols = 2
  /\ ResidualSquares(result.beta, y, predictors).n # 0
  /\ \A i \in 1..2 :
       result.t_statistics[i].k = "t" /\ result.t_statistics[i].s # 0

\* C26: prepare, ols, adf_test and dickeyfuller_test leave their inputs as
\* they were: across every call, successful or failing, and across its
\* return, the caller's series (for ols the response vector and the predictor
\* matrix) keeps its length and its values, and so do the other arguments.
C26_InputsUnchanged ==
  [][/\ Len(y') = Len(y)
     /\ \A i \in 1..Len(y) : y'[i] = y[i]
     /\ predictors' = predictors
     /\ lag' = lag
     /\ regression' = regression]_vars

C26_Witness ==
  /\ op = "prepare" /\ result.kind = "Ok"
  /\ lag = 2 /\ Len(y) = 7 /\ Len(result.delta_y) = 4
  /\ \E i \in 1..Len(y) : y[i] # 0
  /\ result.x.nrows = 4

\* C27: ols never evaluates the unsigned subtraction n - k with n < k:
\* whenever the predictor matrix has fewer rows than columns (adf_test gets
\* there when n - lag - 1 < lag + 1 + extra), X'X is singular and ols returns
\* FailedToInvertMatrix before the subtraction is reached; the call neither
\* panics nor returns values computed from the wrapped difference.
C27_NoUnderflow ==
  /\ (op = "ols" /\ predictors.nrows < predictors.ncols) =>
       result = FailedToInvertMatrix
  /\ (op \in Tests /\ Len(y) > LagOf(op) + 1
        /\ Len(y) - LagOf(op) - 1 < LagOf(op) + 1 + Extra(regression)) =>
       /\ prepare(y, LagOf(op), regression).x.nrows
            < prepare(y, LagOf(op), regression).x.ncols
       /\ result = FailedToInvertMatrix

\* C28: in prepare the length check comes before all index arithmetic: for a
\* series of length n <= lag + 1 (the empty series included) no subtraction,
\* row removal or column copy is executed and NotEnoughSamples is returned;
\* for n > lag + 1 every unsigned subtraction (y_len - 1, y_len - n - 1,
\* n - i - 1, the length - 1 of the shifted difference at each loop step) is
\* non-negative, every row removal is within the vector it is applied to,
\* and each of the lag + 1 columns copied into the matrix has exactly
\* n - lag - 1 elements, the number of rows of the matrix.
C28_IndexArithmetic ==
  op \in {"prepare"} \cup Tests =>
    LET l == LagOf(op)
        steps == prepare_indexing(Len(y), l)
        p == prepare(y, l, regression)
    IN  /\ Len(y) <= l + 1 =>
             /\ steps.subtractions = <<>>
             /\ steps.removals = <<>>
             /\ steps.copies = <<>>
             /\ p = NotEnoughSamples
        /\ Len(y) > l + 1 =>
             /\ \A j \in 1..Len(steps.subtractions) :
                  /\ steps.subtractions[j].b >= 0
                  /\ steps.subtractions[j].a >= steps.subtractions[j].b
             /\ \A j \in 1..Len(steps.removals) :
                  /\ steps.removals[j].at >= 0
                  /\ steps.removals[j].count >= 0
                  /\ steps.removals[j].at + steps.removals[j].count
                       <= steps.removals[j].len
             /\ Len(steps.copies) = l + 1
             /\ \A j \in 1..Len(steps.copies) :
                  /\ steps.copies[j].column = j - 1
                  /\ steps.copies[j].column < steps.ncols
                  /\ steps.copies[j].len = Len(y) - l - 1
                  /\ steps.copies[j].len = steps.nrows
                  /\ p.kind = "Ok"
                  /\ Len(p.x.cols[j]) = steps.copies[j].len
             /\ Len(steps.subtractions) = 5 + (IF l > 0 THEN 1 + 3 * l ELSE 0)

C28_Witness ==
  /\ op = "prepare" /\ lag = 2 /\ Len(y) = 4
  /\ result.kind = "Ok" /\ result.x.nrows = 1
  /\ Len(prepare_indexing(Len(y), lag).copies) = 3
  /\ \E j \in 1..Len(prepare_indexing(Len(y), lag).subtractions) :
       prepare_indexing(Len(y), lag).subtractions[j] = [a |-> 1, b |-> 1]

\* C29: for a series whose values are all zero, of any length n > lag + 1,
\* adf_test and dickeyfuller_test fail with FailedToInvertMatrix for every
\* regression spec and every lag (the lagged-level column is all zero, so
\* X'X has a zero row and is singular whatever the rounding); no Report is
\* returned.
C29_ZeroSeriesFails ==
  (op \in Tests /\ Len(y) > LagOf(op) + 1 /\ \A i \in 1..Len(y) : y[i] = 0) =>
    /\ result = FailedToInvertMatrix
    /\ result.kind # "Ok"
    /\ \A r \in 1..prepare(y, LagOf(op), regression).x.nrows :
         prepare(y, LagOf(op), regression).x.cols[LevelIndex + 1][r] = 0

C29_Witness ==
  /\ op = "adf_test" /\ lag = 2 /\ regression = "ConstantAndTrend"
  /\ Len(y) = 7 /\ \A i \in 1..Len(y) : y[i] = 0
  /\ rounding = "inexact"
  /\ result = FailedToInvertMatrix

====
